---- MODULE Spec2Model ----
(***************************************************************************)
(* Model of app.py: the temporary media store.                             *)
(*                                                                         *)
(* One asyncio event loop runs the request handlers (upload_audio,         *)
(* upload_image) and the background task cleanup_expired_files.  Code      *)
(* between two awaits runs without interleaving with other coroutines, so  *)
(* each action below is one such stretch.  aiofiles performs open / write  *)
(* / close in a worker thread: the effect on the disk (FileOpen,           *)
(* FileWrite) can happen while the loop is busy; the parts of a handler    *)
(* that touch the registry run only when the loop is free (LoopFree).  The *)
(* static mounts serve files straight from the two directories (Download). *)
(*                                                                         *)
(* Time is counted in minutes.  Content is modelled by its byte count.     *)
(* uuid4() hands out values that were never handed out before.             *)
(* asyncio.sleep(60) runs on the loop's own timer, which is not the wall   *)
(* clock the records are stamped with: the reaper wakes at any later time. *)
(* Injected I/O faults: aiofiles.open / f.write raising in an upload, and  *)
(* os.remove raising in the reaper.                                        *)
(***************************************************************************)
EXTENDS Integers, Sequences, FiniteSets, TLC

\* ---------------------------------------------------------------- bounds
MaxUploads == 2
MaxLen == 2
MaxTicks == 2

\* ------------------------------------------------------------- constants
STORAGE_DIR == "audio_storage"
IMAGE_STORAGE_DIR == "image_storage"
EXPIRY_HOURS == 12
IMAGE_EXPIRY_MINUTES == 20

\* timedelta(hours=h) and timedelta(minutes=m), in minutes
timedelta_hours(h) == h * 60
timedelta_minutes(m) == m

\* ------------------------------------------------------------ classifier
UpperCase == <<"A","B","C","D","E","F","G","H","I","J","K","L","M",
               "N","O","P","Q","R","S","T","U","V","W","X","Y","Z">>
LowerCase == <<"a","b","c","d","e","f","g","h","i","j","k","l","m",
               "n","o","p","q","r","s","t","u","v","w","x","y","z">>

\* str.lower() on one character, then on a string
lower_char(c) ==
  IF \E i \in 1..Len(UpperCase) : UpperCase[i] = c
  THEN LowerCase[CHOOSE i \in 1..Len(UpperCase) : UpperCase[i] = c]
  ELSE c

lower(s) == [i \in 1..Len(s) |-> lower_char(s[i])]

\* index of the last occurrence of c in s, 0 when there is none (str.rfind + 1)
rfind(s, c) ==
  IF \E i \in 1..Len(s) : s[i] = c
  THEN CHOOSE i \in 1..Len(s) : s[i] = c /\ \A j \in (i+1)..Len(s) : s[j] # c
  ELSE 0

\* PurePath.name: the last path component
path_name(s) == SubSeq(s, rfind(s, "/") + 1, Len(s))

\* PurePath.suffix: from the last dot of the name, unless the dot is the
\* first or the last character of the name
path_suffix(s) ==
  LET name == path_name(s)
      i == rfind(name, ".")
  IN IF 1 < i /\ i < Len(name) THEN SubSeq(name, i, Len(name)) ELSE <<>>

\* the suffix as the client wrote it
get_file_extension_cased(filename) == path_suffix(filename)

get_file_extension(filename) == lower(path_suffix(filename))

audio_extensions ==
  { <<".","m","p","3">>, <<".","w","a","v">>, <<".","f","l","a","c">>,
    <<".","a","a","c">>, <<".","o","g","g">>, <<".","m","4","a">>,
    <<".","w","m","a">> }

image_extensions ==
  { <<".","j","p","g">>, <<".","j","p","e","g">>, <<".","p","n","g">>,
    <<".","g","i","f">>, <<".","b","m","p">>, <<".","w","e","b","p">>,
    <<".","s","v","g">>, <<".","t","i","f","f">>, <<".","i","c","o">> }

\* a check that lets every filename through
is_audio_file_any(filename) == TRUE

is_audio_file(filename) == get_file_extension(filename) \in audio_extensions

is_image_file(filename) == get_file_extension(filename) \in image_extensions

\* ---------------------------------------------------------------- inputs
\* filenames a client sends: clip.mp3, photo.PNG, doc.pdf
Filenames ==
  { <<"c","l","i","p",".","m","p","3">>,
    <<"p","h","o","t","o",".","P","N","G">>,
    <<"d","o","c",".","p","d","f">> }

\* str.upper() on one character, then on a string
upper_char(c) ==
  IF \E i \in 1..Len(LowerCase) : LowerCase[i] = c
  THEN UpperCase[CHOOSE i \in 1..Len(LowerCase) : LowerCase[i] = c]
  ELSE c

upper(s) == [i \in 1..Len(s) |-> upper_char(s[i])]

\* extensions a client may give a file, without the dot: the sixteen the
\* two endpoints name in their error messages, and two they do not
SentExtensions ==
  { <<"m","p","3">>, <<"w","a","v">>, <<"f","l","a","c">>, <<"a","a","c">>,
    <<"o","g","g">>, <<"m","4","a">>, <<"w","m","a">>,
    <<"j","p","g">>, <<"j","p","e","g">>, <<"p","n","g">>, <<"g","i","f">>,
    <<"b","m","p">>, <<"w","e","b","p">>, <<"s","v","g">>,
    <<"t","i","f","f">>, <<"i","c","o">>,
    <<"p","d","f">>, <<"t","x","t">> }

\* the file a.<extension>
Named(extension) == <<"a", ".">> \o extension

\* a file under each extension in lower and in upper case
SentFilenames ==
  {Named(e) : e \in SentExtensions} \cup {Named(upper(e)) : e \in SentExtensions}

\* every request body has MaxLen bytes
Contents == {MaxLen}
Requests == 1..MaxUploads
\* minutes by which the clock advances between two consecutive reads of it
Skews == {0, 1}
Advance == {timedelta_minutes(IMAGE_EXPIRY_MINUTES), timedelta_hours(EXPIRY_HOURS)}

\* ----------------------------------------------------------------- state
VARIABLES
  clock,          \* datetime.now(), minutes
  ticks,          \* how often the clock has been advanced
  uuids,          \* number of uuid4() values handed out
  disk,           \* existing files: path -> byte count
  file_registry,  \* the dict, in insertion order: sequence of entries
  upload,         \* per request: the handler's frame
  reaper,         \* the frame of cleanup_expired_files
  served          \* the last response of the static mounts

vars == <<clock, ticks, uuids, disk, file_registry, upload, reaper, served>>

Idle == [pc |-> "idle"]

\* the reaper outside a cycle: asleep, or ended by an exception.  The locals
\* of the last cycle are dead: the next cycle assigns them before reading.
Suspended(pc) == [pc |-> pc, current_time |-> 0, expired_tokens |-> <<>>, i |-> 1]
NoResponse == [status |-> 0]

Init ==
  /\ clock = 0
  /\ ticks = 0
  /\ uuids = 0
  /\ disk = <<>>
  /\ file_registry = <<>>
  /\ upload = [u \in Requests |-> Idle]
  /\ reaper = Suspended("sleeping")
  /\ served = NoResponse

\* ------------------------------------------------------------ filesystem
exists(path) == path \in DOMAIN disk

\* a removal that leaves the file in place
os_remove_noop(d, path) == [p \in DOMAIN d |-> d[p]]

os_remove(d, path) == [p \in (DOMAIN d) \ {path} |-> d[p]]

write_file(d, path, n) == [p \in (DOMAIN d) \cup {path} |-> IF p = path THEN n ELSE d[p]]

os_path_join(dir, name) == [dir |-> dir, name |-> name]

\* ------------------------------------------------------------------ dict
tokens_of(reg) == {reg[k].token : k \in 1..Len(reg)}

index_of(reg, token) == CHOOSE k \in 1..Len(reg) : reg[k].token = token

\* file_registry[token] = info
dict_set(reg, token, info) ==
  LET entry == [token |-> token, info |-> info]
  IN IF token \in tokens_of(reg)
     THEN [reg EXCEPT ![index_of(reg, token)] = entry]
     ELSE Append(reg, entry)

\* del file_registry[token]
dict_del(reg, token) ==
  LET k == index_of(reg, token)
  IN SubSeq(reg, 1, k - 1) \o SubSeq(reg, k + 1, Len(reg))

\* an event loop that runs a handler whatever the reaper is doing
LoopFree_always == TRUE

\* the event loop is free to run a handler when the reaper is suspended
LoopFree == reaper.pc \in {"sleeping", "dead"}

\* ---------------------------------------------------------------- uploads
\* requests are numbered in the order in which their handlers start
MayStart(u) == upload[u].pc = "idle" /\ \A v \in 1..(u-1) : upload[v].pc # "idle"

\* the handler has answered; its frame is gone
Response(status) == [pc |-> "returned", status |-> status]

Frame(endpoint, filename, content, dir) ==
  LET file_extension == get_file_extension(filename)
      unique_filename == [uuid |-> uuids + 1, ext |-> file_extension]
  IN [pc |-> "open", endpoint |-> endpoint, filename |-> filename,
      content |-> content, unique_filename |-> unique_filename,
      file_path |-> os_path_join(dir, unique_filename),
      secure_token |-> uuids + 2]

\* the body of upload_audio up to the first await (aiofiles.open)
upload_audio_validate(u, filename, content) ==
  IF ~is_audio_file(filename)
  THEN /\ upload' = [upload EXCEPT ![u] = Response(400)]
       /\ UNCHANGED uuids
  ELSE /\ upload' = [upload EXCEPT ![u] =
            Frame("upload-audio", filename, content, STORAGE_DIR)]
       /\ uuids' = uuids + 2

\* the body of upload_image up to the first await (aiofiles.open)
upload_image_validate(u, filename, content) ==
  IF ~is_image_file(filename)
  THEN /\ upload' = [upload EXCEPT ![u] = Response(400)]
       /\ UNCHANGED uuids
  ELSE /\ upload' = [upload EXCEPT ![u] =
            Frame("upload-image", filename, content, IMAGE_STORAGE_DIR)]
       /\ uuids' = uuids + 2

\* POST /upload-audio up to the first await (aiofiles.open)
upload_audio(u) ==
  /\ LoopFree
  /\ MayStart(u)
  /\ \E filename \in Filenames, content \in Contents :
       upload_audio_validate(u, filename, content)
  /\ UNCHANGED <<clock, ticks, disk, file_registry, reaper, served>>

\* POST /upload-audio for a request that has arrived with its file
upload_audio_posted(u) ==
  /\ LoopFree
  /\ upload[u].pc = "received"
  /\ upload[u].endpoint = "upload-audio"
  /\ upload_audio_validate(u, upload[u].filename, upload[u].content)
  /\ UNCHANGED <<clock, ticks, disk, file_registry, reaper, served>>

\* POST /upload-image for a request that has arrived with its file
upload_image_posted(u) ==
  /\ LoopFree
  /\ upload[u].pc = "received"
  /\ upload[u].endpoint = "upload-image"
  /\ upload_image_validate(u, upload[u].filename, upload[u].content)
  /\ UNCHANGED <<clock, ticks, disk, file_registry, reaper, served>>

\* POST /upload-image up to the first await (aiofiles.open)
upload_image(u) ==
  /\ LoopFree
  /\ MayStart(u)
  /\ \E filename \in Filenames, content \in Contents :
       upload_image_validate(u, filename, content)
  /\ UNCHANGED <<clock, ticks, disk, file_registry, reaper, served>>

\* upload_audio when uuid.uuid4() at line 149 returns a value that is already
\* a key of file_registry
upload_audio_repeat(u) ==
  /\ LoopFree
  /\ MayStart(u)
  /\ \E filename \in Filenames, content \in Contents,
        token \in tokens_of(file_registry) :
       /\ is_audio_file(filename)
       /\ upload' = [upload EXCEPT ![u] =
            [Frame("upload-audio", filename, content, STORAGE_DIR)
               EXCEPT !.secure_token = token]]
  /\ uuids' = uuids + 2
  /\ UNCHANGED <<clock, ticks, disk, file_registry, reaper, served>>

\* upload_image when uuid.uuid4() at line 213 returns a value that is already
\* a key of file_registry
upload_image_repeat(u) ==
  /\ LoopFree
  /\ MayStart(u)
  /\ \E filename \in Filenames, content \in Contents,
        token \in tokens_of(file_registry) :
       /\ is_image_file(filename)
       /\ upload' = [upload EXCEPT ![u] =
            [Frame("upload-image", filename, content, IMAGE_STORAGE_DIR)
               EXCEPT !.secure_token = token]]
  /\ uuids' = uuids + 2
  /\ UNCHANGED <<clock, ticks, disk, file_registry, reaper, served>>

\* worker thread: open(file_path, 'wb') creates or truncates the file, or
\* raises.  The handler then reads the request body and awaits f.write, which
\* changes nothing here: "write" is the handler with the file open.
FileOpen(u) ==
  /\ upload[u].pc = "open"
  /\ \/ /\ disk' = write_file(disk, upload[u].file_path, 0)
        /\ upload' = [upload EXCEPT ![u].pc = "write"]
     \/ /\ upload' = [upload EXCEPT ![u].pc = "raised"]
        /\ UNCHANGED disk
  /\ UNCHANGED <<clock, ticks, uuids, file_registry, reaper, served>>

\* byte counts a write or close that raises can leave behind
Partial(content) == 0..content

\* a write that reports success after writing all but the last byte
FileWrite_short(u) ==
  /\ upload[u].pc = "write"
  /\ \/ /\ disk' = write_file(disk, upload[u].file_path, upload[u].content - 1)
        /\ upload' = [upload EXCEPT ![u].pc = "written"]
     \/ \E k \in Partial(upload[u].content) :
        /\ disk' = write_file(disk, upload[u].file_path, k)
        /\ upload' = [upload EXCEPT ![u].pc = "raised"]
  /\ UNCHANGED <<clock, ticks, uuids, file_registry, reaper, served>>

\* worker thread: f.write(content) and the close of the async with block;
\* a write or close that fails leaves what was written so far and raises
FileWrite(u) ==
  /\ upload[u].pc = "write"
  /\ \/ /\ disk' = write_file(disk, upload[u].file_path, upload[u].content)
        /\ upload' = [upload EXCEPT ![u].pc = "written"]
     \/ \E k \in Partial(upload[u].content) :
        /\ disk' = write_file(disk, upload[u].file_path, k)
        /\ upload' = [upload EXCEPT ![u].pc = "raised"]
  /\ UNCHANGED <<clock, ticks, uuids, file_registry, reaper, served>>

\* upload_audio after the async with block: expiry, registry entry, response.
\* datetime.now() is read twice; the clock may advance between the reads.
UploadAudioInsert(u) ==
  /\ LoopFree
  /\ upload[u].pc = "written"
  /\ upload[u].endpoint = "upload-audio"
  /\ \E skew \in Skews :
       LET expires_at == clock + timedelta_hours(EXPIRY_HOURS)
           info == [original_filename |-> upload[u].filename,
                    file_path |-> upload[u].file_path,
                    unique_filename |-> upload[u].unique_filename,
                    created_at |-> clock + skew,
                    expires_at |-> expires_at]
       IN /\ file_registry' = dict_set(file_registry, upload[u].secure_token, info)
          /\ clock' = clock + skew
  /\ upload' = [upload EXCEPT ![u] = Response(200)]
  /\ UNCHANGED <<ticks, uuids, disk, reaper, served>>

\* upload_image after the async with block
UploadImageInsert(u) ==
  /\ LoopFree
  /\ upload[u].pc = "written"
  /\ upload[u].endpoint = "upload-image"
  /\ \E skew \in Skews :
       LET expires_at == clock + timedelta_minutes(IMAGE_EXPIRY_MINUTES)
           info == [original_filename |-> upload[u].filename,
                    file_path |-> upload[u].file_path,
                    created_at |-> clock + skew,
                    expires_at |-> expires_at,
                    file_size |-> upload[u].content]
       IN /\ file_registry' = dict_set(file_registry, upload[u].secure_token, info)
          /\ clock' = clock + skew
  /\ upload' = [upload EXCEPT ![u] = Response(200)]
  /\ UNCHANGED <<ticks, uuids, disk, reaper, served>>

\* an except clause that answers 500 and leaves the file where it is
UploadExcept_noclean(u) ==
  /\ LoopFree
  /\ upload[u].pc = "raised"
  /\ upload' = [upload EXCEPT ![u] = Response(500)]
  /\ UNCHANGED <<clock, ticks, uuids, disk, file_registry, reaper, served>>

\* except Exception: remove the file if it exists, answer 500 (both handlers)
UploadExcept(u) ==
  /\ LoopFree
  /\ upload[u].pc = "raised"
  /\ disk' = IF exists(upload[u].file_path)
             THEN os_remove(disk, upload[u].file_path)
             ELSE disk
  /\ upload' = [upload EXCEPT ![u] = Response(500)]
  /\ UNCHANGED <<clock, ticks, uuids, file_registry, reaper, served>>

\* the handler's task is cancelled while it awaits the file open or the file
\* write (client gone, server stopping): CancelledError is not an Exception,
\* so the except clause does not run and nothing is removed or registered.
\* An open that a worker thread has already begun may still create the file.
UploadAbort(u) ==
  /\ upload[u].pc \in {"open", "write", "written"}
  /\ upload' = [upload EXCEPT ![u] = [pc |-> "cancelled"]]
  /\ IF upload[u].pc = "open"
     THEN \/ disk' = write_file(disk, upload[u].file_path, 0)
          \/ UNCHANGED disk
     ELSE UNCHANGED disk
  /\ UNCHANGED <<clock, ticks, uuids, file_registry, reaper, served>>

\* ---------------------------------------------------------------- reaper
\* cleanup_expired_files resumes from asyncio.sleep: a new cycle starts
ReaperWake ==
  /\ reaper.pc = "sleeping"
  /\ reaper' = [pc |-> IF Len(file_registry) = 0 THEN "removing" ELSE "scanning",
                current_time |-> clock, expired_tokens |-> <<>>, i |-> 1]
  /\ UNCHANGED <<clock, ticks, uuids, disk, file_registry, upload, served>>

\* an expiry test that also takes a record at the instant it expires
is_expired_at(current_time, file_info) == current_time >= file_info.expires_at

\* if current_time > file_info["expires_at"]
is_expired(current_time, file_info) == current_time > file_info.expires_at

\* one iteration of `for token, file_info in file_registry.items()`;
\* os.remove may raise, and nothing in the task catches it
ReaperVisit ==
  /\ reaper.pc = "scanning"
  /\ LET entry == file_registry[reaper.i]
         file_path == entry.info.file_path
         next == [reaper EXCEPT
                    !.i = @ + 1,
                    !.pc = IF reaper.i + 1 > Len(file_registry)
                           THEN "removing" ELSE "scanning"]
     IN IF is_expired(reaper.current_time, entry.info)
        THEN IF exists(file_path)
             THEN \/ /\ disk' = os_remove(disk, file_path)
                     /\ reaper' = [next EXCEPT
                           !.expired_tokens = Append(@, entry.token)]
                  \/ /\ reaper' = Suspended("dead")
                     /\ UNCHANGED disk
             ELSE /\ reaper' = [next EXCEPT
                        !.expired_tokens = Append(@, entry.token)]
                  /\ UNCHANGED disk
        ELSE /\ reaper' = next
             /\ UNCHANGED disk
  /\ UNCHANGED <<clock, ticks, uuids, file_registry, upload, served>>

\* one iteration of `for token in expired_tokens: del file_registry[token]`
ReaperDelete ==
  /\ reaper.pc = "removing"
  /\ reaper.expired_tokens # <<>>
  /\ file_registry' = dict_del(file_registry, Head(reaper.expired_tokens))
  /\ reaper' = [reaper EXCEPT !.expired_tokens = Tail(@)]
  /\ UNCHANGED <<clock, ticks, uuids, disk, upload, served>>

\* await asyncio.sleep(60): the cycle is over
ReaperSleep ==
  /\ reaper.pc = "removing"
  /\ reaper.expired_tokens = <<>>
  /\ reaper' = Suspended("sleeping")
  /\ UNCHANGED <<clock, ticks, uuids, disk, file_registry, upload, served>>

\* ----------------------------------------------------------- environment
\* the wall clock advances
Tick ==
  /\ ticks < MaxTicks
  /\ \E d \in Advance : clock' = clock + d
  /\ ticks' = ticks + 1
  /\ UNCHANGED <<uuids, disk, file_registry, upload, reaper, served>>

\* names a client can ask the static mounts for: every generated name
StoredPaths ==
  {os_path_join(STORAGE_DIR, [uuid |-> n, ext |-> e]) :
     n \in 1..uuids, e \in audio_extensions \cap {get_file_extension(f) : f \in Filenames}}
  \cup
  {os_path_join(IMAGE_STORAGE_DIR, [uuid |-> n, ext |-> e]) :
     n \in 1..uuids, e \in image_extensions \cap {get_file_extension(f) : f \in Filenames}}

\* a download that also asks for a record of the file in file_registry
Download_registered ==
  /\ \E path \in StoredPaths :
       served' = IF /\ exists(path)
                    /\ \E k \in 1..Len(file_registry) :
                         file_registry[k].info.file_path = path
                 THEN [status |-> 200, path |-> path, length |-> disk[path]]
                 ELSE [status |-> 404, path |-> path]
  /\ UNCHANGED <<clock, ticks, uuids, disk, file_registry, upload, reaper>>

\* GET /static/audio/<name> and GET /images/<name>: StaticFiles serves the
\* file that is on disk, 404 when there is none
Download ==
  /\ \E path \in StoredPaths :
       served' = IF exists(path)
                 THEN [status |-> 200, path |-> path, length |-> disk[path]]
                 ELSE [status |-> 404, path |-> path]
  /\ UNCHANGED <<clock, ticks, uuids, disk, file_registry, upload, reaper>>

\* a stored file disappears from its directory without the program's doing
\* (the directories are ordinary directories of the host)
BlobLost ==
  /\ \E path \in DOMAIN disk : disk' = os_remove(disk, path)
  /\ UNCHANGED <<clock, ticks, uuids, file_registry, upload, reaper, served>>

Next ==
  \/ \E u \in Requests : upload_audio(u)
  \/ \E u \in Requests : upload_image(u)
  \/ \E u \in Requests : FileOpen(u)
  \/ \E u \in Requests : FileWrite(u)
  \/ \E u \in Requests : UploadAudioInsert(u)
  \/ \E u \in Requests : UploadImageInsert(u)
  \/ \E u \in Requests : UploadExcept(u)
  \/ ReaperWake
  \/ ReaperVisit
  \/ ReaperDelete
  \/ ReaperSleep
  \/ Tick

\* uploads, the reaper and the clock
Spec == Init /\ [][Next]_vars

\* the event loop runs the reaper task whenever it can take a step
FairSpec ==
  /\ Spec
  /\ WF_vars(ReaperWake)
  /\ WF_vars(ReaperVisit)
  /\ WF_vars(ReaperDelete)
  /\ WF_vars(ReaperSleep)

NextServe ==
  \/ Next
  \/ Download

\* the same, with clients fetching from the static mounts
ServeSpec == Init /\ [][NextServe]_vars

\* one request, already received, on either endpoint with any sent filename
InitClassify ==
  /\ clock = 0
  /\ ticks = 0
  /\ uuids = 0
  /\ disk = <<>>
  /\ file_registry = <<>>
  /\ reaper = Suspended("sleeping")
  /\ served = NoResponse
  /\ \E endpoint \in {"upload-audio", "upload-image"},
        filename \in SentFilenames, content \in Contents :
       upload = [u \in Requests |->
                   IF u = 1
                   THEN [pc |-> "received", endpoint |-> endpoint,
                         filename |-> filename, content |-> content]
                   ELSE Idle]

NextClassify ==
  \/ \E u \in Requests :
       \/ upload_audio_posted(u)
       \/ upload_image_posted(u)
       \/ FileOpen(u)
       \/ FileWrite(u)
       \/ UploadAudioInsert(u)
       \/ UploadImageInsert(u)
       \/ UploadExcept(u)

\* the handling of one upload, from validation to the response
ClassifySpec == InitClassify /\ [][NextClassify]_vars

NextLoss ==
  \/ Next
  \/ BlobLost

\* Spec, with files that can vanish from the storage directories
LossSpec == Init /\ [][NextLoss]_vars

FairLossSpec ==
  /\ LossSpec
  /\ WF_vars(ReaperWake)
  /\ WF_vars(ReaperVisit)
  /\ WF_vars(ReaperDelete)
  /\ WF_vars(ReaperSleep)

NextRepeat ==
  \/ Next
  \/ \E u \in Requests : upload_audio_repeat(u) \/ upload_image_repeat(u)

\* Spec, with uuid4 values that can repeat a token in use
RepeatSpec == Init /\ [][NextRepeat]_vars

NextAbort ==
  \/ Next
  \/ \E u \in Requests : UploadAbort(u)

\* Spec, with uploads that can be cancelled
AbortSpec == Init /\ [][NextAbort]_vars

\* ---------------------------------------------------------------- claims
Entries == 1..Len(file_registry)
InFlight(u) == upload[u].pc \in {"open", "write", "written", "raised"}
AllTokens == 1..(2 * MaxUploads)

\* the files of the upload that drew token t: a handler draws the uuid of
\* its file name right before its token
BlobsOf(t) == {p \in DOMAIN disk : p.name.uuid = t - 1}

\* the allow-list and the retention of an endpoint, as the claims state them
AllowList(endpoint) ==
  IF endpoint = "upload-audio" THEN audio_extensions ELSE image_extensions

Retention(dir) ==
  IF dir = STORAGE_DIR THEN 12 * 60 ELSE 20

\* C1: at every point where the reaper is not in the middle of a cycle, the
\* blob of every record in the Registry exists on disk.
C1_RecordHasBlob ==
  LoopFree => \A k \in Entries : exists(file_registry[k].info.file_path)

\* C2: in the state at the end of a Reaper cycle, no record that was
\* expired when the cycle started (expires_at earlier than the cycle's
\* current_time) is still in the Registry.
C2_CycleRemovesExpired ==
  [][(~LoopFree /\ LoopFree') =>
       \A k \in 1..Len(file_registry') :
         ~(reaper.current_time > file_registry'[k].info.expires_at)]_vars

\* C3: under a fairly scheduled reaper, every record whose expires_at the
\* clock has passed is eventually out of the Registry with its blob gone.
C3_ExpiredEventuallyReclaimed ==
  \A t \in AllTokens :
    (\E k \in Entries : /\ file_registry[k].token = t
                        /\ clock > file_registry[k].info.expires_at)
    ~> (t \notin tokens_of(file_registry) /\ BlobsOf(t) = {})

\* C4: the Reaper loop never terminates: an error while deleting one
\* record's blob does not end the task.
C4_ReaperNeverTerminates == reaper.pc # "dead"

\* C5: in the state right after an upload answers 200, exactly one record
\* is stored under the upload's token, and the blob at the upload's
\* file path exists and has as many bytes as the uploaded content.
C5_SuccessfulUploadStored ==
  [][\A u \in Requests :
       (InFlight(u) /\ upload'[u] = Response(200)) =>
         /\ Cardinality({k \in 1..Len(file_registry') :
                           file_registry'[k].token = upload[u].secure_token}) = 1
         /\ \E k \in 1..Len(file_registry') :
              /\ file_registry'[k].token = upload[u].secure_token
              /\ file_registry'[k].info.file_path = upload[u].file_path
         /\ upload[u].file_path \in DOMAIN disk'
         /\ disk'[upload[u].file_path] = upload[u].content]_vars

C5_Witness ==
  \E u \in Requests :
    /\ upload[u] = Response(200)
    /\ \E k \in Entries :
         /\ exists(file_registry[k].info.file_path)
         /\ disk[file_registry[k].info.file_path] = MaxLen

\* C6: every record's expires_at equals its created_at plus the retention
\* of its category (12 hours for audio, 20 minutes for images).
C6_ExpiryIsCreationPlusRetention ==
  \A k \in Entries :
    file_registry[k].info.expires_at =
      file_registry[k].info.created_at + Retention(file_registry[k].info.file_path.dir)

\* C7: a handler never gets past validation with a filename whose
\* extension is outside its endpoint's allow-list, and the step that
\* answers 400 changes neither the disk nor the Registry.
C7_RejectedWithoutEffect ==
  /\ [](\A u \in Requests :
          InFlight(u) =>
            get_file_extension(upload[u].filename) \in AllowList(upload[u].endpoint))
  /\ [][\A u \in Requests :
          (upload[u].pc # "returned" /\ upload'[u] = Response(400)) =>
            (disk' = disk /\ file_registry' = file_registry)]_vars

C7_Witness ==
  /\ upload[1] = Response(400)
  /\ upload[2] = Response(400)
  /\ disk = <<>>
  /\ file_registry = <<>>

C9_NoPartialBlobServed ==
  \A u \in Requests :
    (InFlight(u) /\ served.status = 200 /\ served.path = upload[u].file_path)
      => served.length = upload[u].content

\* C10: a record leaves the Registry only after its blob has left the
\* disk: in every step that removes a record, the blob at its file path is
\* absent before and after the step.
C10_BlobDeletedBeforeRecord ==
  [][\A k \in Entries :
       file_registry[k].token \notin tokens_of(file_registry') =>
         /\ ~exists(file_registry[k].info.file_path)
         /\ file_registry[k].info.file_path \notin DOMAIN disk']_vars

\* an upload was stored and a completed cycle has reclaimed it
C10_Witness ==
  /\ \E u \in Requests : upload[u] = Response(200)
  /\ \A u \in Requests : upload[u].pc \in {"idle", "returned"}
  /\ \A u \in Requests : upload[u].pc = "returned" => upload[u].status = 200
  /\ file_registry = <<>>
  /\ disk = <<>>
  /\ reaper.pc = "sleeping"

\* C11: when the reaper is asleep and an expired record is in the Registry
\* while its blob is missing from disk, the reaper goes on to remove the
\* record, and it is still running when it has.
C11_FilelessRecordRemoved ==
  \A t \in AllTokens :
    (/\ reaper.pc = "sleeping"
     /\ \E k \in Entries :
          /\ file_registry[k].token = t
          /\ clock > file_registry[k].info.expires_at
          /\ file_registry[k].info.file_path \notin DOMAIN disk)
    ~> (t \notin tokens_of(file_registry) /\ reaper.pc # "dead")

\* C12: a handler that reaches its insert with a token that is already a key
\* of the Registry answers with an internal error and leaves the Registry,
\* the existing record included, as it was.
C12_DuplicateTokenRejected ==
  [][\A u \in Requests :
       (/\ upload[u].pc = "written"
        /\ upload[u].secure_token \in tokens_of(file_registry)
        /\ upload'[u].pc = "returned")
       => (file_registry' = file_registry /\ upload'[u].status = 500)]_vars

\* C13: a record that is in the Registry before a step is in it unchanged,
\* expires_at and every other field, after the step, unless the step is the
\* reaper's removal of that record.
C13_RecordNeverModified ==
  [][\A k \in Entries :
       LET entry == file_registry[k]
       IN IF entry.token \in tokens_of(file_registry')
          THEN file_registry'[index_of(file_registry', entry.token)] = entry
          ELSE reaper.pc = "removing"]_vars

\* C14: a download answers 200 exactly when the file it names is on disk and
\* 404 otherwise, whatever the Registry holds; the file of a record leaves
\* the disk only in a step of the reaper's scan, so it is served until then,
\* expired or not; and a file comes into being only under the newly generated
\* name of the upload that opens it, so a reaped name stays 404.
C14_DownloadFollowsDisk ==
  /\ [][/\ served' # served =>
             /\ served'.status \in {200, 404}
             /\ served'.status = 200 <=> served'.path \in DOMAIN disk
        /\ \A k \in Entries :
             (/\ file_registry[k].info.file_path \in DOMAIN disk
              /\ file_registry[k].info.file_path \notin DOMAIN disk')
             => reaper.pc = "scanning"
        /\ \A path \in DOMAIN disk' \ DOMAIN disk :
             \E u \in Requests :
               upload[u].pc = "open" /\ upload[u].file_path = path
        /\ \A u \in Requests :
             (upload[u].pc = "idle" /\ upload'[u].pc = "open")
             => upload'[u].file_path.name.uuid > uuids]_vars
  /\ [](\A path \in DOMAIN disk : path.name.uuid <= uuids)

C14_Witness ==
  /\ served.status = 200
  /\ exists(served.path)
  /\ \E k \in Entries :
       /\ file_registry[k].info.file_path = served.path
       /\ clock > file_registry[k].info.expires_at

C15_audio == { <<"m","p","3">>, <<"w","a","v">>, <<"f","l","a","c">>,
               <<"a","a","c">>, <<"o","g","g">>, <<"m","4","a">>,
               <<"w","m","a">> }

C15_image == { <<"j","p","g">>, <<"j","p","e","g">>, <<"p","n","g">>,
               <<"g","i","f">>, <<"b","m","p">>, <<"w","e","b","p">>,
               <<"s","v","g">>, <<"t","i","f","f">>, <<"i","c","o">> }

\* the endpoint whose category a filename belongs to, "none" if neither
C15_endpoint(filename) ==
  IF \E e \in C15_audio : filename \in {Named(e), Named(upper(e))}
  THEN "upload-audio"
  ELSE IF \E e \in C15_image : filename \in {Named(e), Named(upper(e))}
       THEN "upload-image"
       ELSE "none"

C15_dir(endpoint) ==
  IF endpoint = "upload-audio" THEN "audio_storage" ELSE "image_storage"

C15_retention(endpoint) ==
  IF endpoint = "upload-audio" THEN 12 * 60 ELSE 20

\* C15: a file named with one of the seven audio or nine image extensions,
\* in lower or in upper case, passes validation on the endpoint of its
\* category and is refused with 400 by the other endpoint; when its upload
\* completes, its blob is on disk in the category's directory and its record
\* expires one retention period of the category after the handler read the
\* clock.
C15_ExtensionDecidesCategory ==
  [][\A u \in Requests :
       /\ (/\ upload[u].pc = "received"
           /\ upload'[u].pc # "received"
           /\ C15_endpoint(upload[u].filename) # "none")
          => IF C15_endpoint(upload[u].filename) = upload[u].endpoint
             THEN /\ upload'[u].pc = "open"
                  /\ upload'[u].file_path.dir = C15_dir(upload[u].endpoint)
             ELSE upload'[u] = Response(400)
       /\ (/\ upload[u].pc = "written"
           /\ upload'[u] = Response(200))
          => \E k \in 1..Len(file_registry') :
               LET info == file_registry'[k].info
                   endpoint == C15_endpoint(info.original_filename)
               IN /\ file_registry'[k].token = upload[u].secure_token
                  /\ info.original_filename = upload[u].filename
                  /\ endpoint = upload[u].endpoint
                  /\ info.file_path.dir = C15_dir(endpoint)
                  /\ info.file_path \in DOMAIN disk'
                  /\ info.expires_at = clock + C15_retention(endpoint)]_vars

C15_Witness ==
  \E k \in Entries :
    /\ file_registry[k].info.original_filename = Named(upper(<<"w","e","b","p">>))
    /\ file_registry[k].info.file_path.dir = "image_storage"
    /\ file_registry[k].info.file_path \in DOMAIN disk
    /\ upload[1] = Response(200)

\* C16: while the reaper is in its scan of the Registry, or in its removal
\* of the collected records, no file is deleted from disk, and a step that
\* changes the Registry writes and deletes no file.
C16_NoFileIOWhileRegistryHeld ==
  [][/\ reaper.pc \in {"scanning", "removing"}
          => DOMAIN disk \subseteq DOMAIN disk'
     /\ file_registry' # file_registry => disk' = disk]_vars

\* C17: in a reaper cycle, a record whose expires_at is not strictly earlier
\* than the time the cycle read is in the Registry after every step of the
\* cycle, and its blob, if on disk, is still on disk.
C17_UnexpiredLeftAlone ==
  [][\A k \in Entries :
       (/\ reaper.pc \in {"scanning", "removing"}
        /\ ~(file_registry[k].info.expires_at < reaper.current_time))
       => /\ file_registry[k].token \in tokens_of(file_registry')
          /\ file_registry[k].info.file_path \in DOMAIN disk
               => file_registry[k].info.file_path \in DOMAIN disk']_vars

C17_Witness ==
  /\ reaper.pc = "removing"
  /\ \E k \in Entries :
       /\ file_registry[k].info.expires_at = reaper.current_time
       /\ file_registry[k].info.file_path \in DOMAIN disk
       /\ \A j \in 1..Len(reaper.expired_tokens) :
            reaper.expired_tokens[j] # file_registry[k].token

\* C18, as stated: while a reaper cycle is under way no step of any upload
\* is taken.
C18_NoUploadStepInCycle ==
  [][reaper.pc \in {"scanning", "removing"} => upload' = upload]_vars

\* C18, amended: while a reaper cycle is under way no handler code runs: no
\* token is added to the Registry, and an upload advances only by the
\* completion of its file open or file write in a worker thread; and the
\* tokens the cycle has collected and not yet removed are distinct keys of
\* the Registry, so no removal meets a missing key.
C18_CycleExcludesHandlers ==
  /\ [][reaper.pc \in {"scanning", "removing"} =>
          /\ tokens_of(file_registry') \subseteq tokens_of(file_registry)
          /\ \A u \in Requests :
               upload'[u] # upload[u] =>
                 /\ upload[u].pc \in {"open", "write"}
                 /\ upload'[u].pc \in {"write", "written", "raised"}]_vars
  /\ [](\A j \in 1..Len(reaper.expired_tokens) :
          /\ reaper.expired_tokens[j] \in tokens_of(file_registry)
          /\ \A i \in 1..(j - 1) :
               reaper.expired_tokens[i] # reaper.expired_tokens[j])

C18_Witness ==
  /\ reaper.pc = "removing"
  /\ Len(reaper.expired_tokens) = 1
  /\ Len(file_registry) = 1
  /\ \E u \in Requests : upload[u].pc = "written"

\* C19: when no upload is in flight, every file on disk is the file_path of
\* exactly one record of the Registry.
C19_NoBlobLeaked ==
  (\A u \in Requests : ~InFlight(u)) =>
    \A path \in DOMAIN disk :
      Cardinality({k \in Entries : file_registry[k].info.file_path = path}) = 1

====
